---- MODULE Spec2Model ----
(***************************************************************************)
(* The content scraper of scripts/scrapers/content_scraper/scraper.py:     *)
(* the dedup registry, the archive store, the fetch strategy chain and the *)
(* domain-partitioned scheduler (run_scraper_async).                       *)
(*                                                                         *)
(* Python strings are sequences of one-character strings, so that          *)
(* slugify, get_domain and the directory names are computed, not assumed.  *)
(***************************************************************************)
EXTENDS Integers, Sequences, FiniteSets, TLC

(***************************************************************************)
(* Bounds of the model.                                                    *)
(***************************************************************************)
\* longest candidate list (all_urls) of specification Spec
MaxCands == 3
\* largest configured max_retries of specification Spec
MaxRetries == 1
\* number of runs of run_scraper_async in one behaviour
MaxRuns == 2
\* largest configured max_retries of specification SpecRetry
MaxRetriesDeep == 5
MaxCandsFair == 2
MaxCandsCrash == 2
MaxCandsFaults == 2
MaxLines == 2
MaxPasses == 3
\* the largest --limit
MaxLimit == 2

(***************************************************************************)
(* Program constants.                                                      *)
(***************************************************************************)
MAX_CONCURRENT_DOMAINS == 5
\* slugify's default max_length
SlugMaxLength == 80
\* scrape_url_async: len(html) < 500 is "too short"
MinContentLength == 500
\* seconds of the first backoff: asyncio.sleep(2**retries) at retries = 0
BackoffBase == 1

(***************************************************************************)
(* The candidates of the model: URLs, titles and news sources. The state   *)
(* holds a string as a TLA+ string; Chars gives its characters to the      *)
(* functions that read them.                                               *)
(***************************************************************************)
UrlA1 == "https://www.a.hk/x"
\* the host of UrlA1 without "www.", under another scheme
UrlA2 == "http://a.hk/y"
\* a URL of the site-specific strategy
UrlIm == "https://www.inmediahk.net/n"
TitleFoo == "Foo"
\* another title of slug "foo"
TitleFooBang == "foo!"
\* a title whose slug is "foo-1"
TitleFoo1 == "Foo 1"
SourceBBC == "BBC"
SourceHk01 == "hk01"

Urls == {UrlA1, UrlA2, UrlIm}
Titles == {TitleFoo, TitleFooBang, TitleFoo1}
Sources == {SourceBBC, SourceHk01}

Chars ==
    UrlA1 :> <<"h", "t", "t", "p", "s", ":", "/", "/", "w", "w", "w", ".", "a", ".", "h", "k", "/", "x">> @@
    UrlA2 :> <<"h", "t", "t", "p", ":", "/", "/", "a", ".", "h", "k", "/", "y">> @@
    UrlIm :> <<"h", "t", "t", "p", "s", ":", "/", "/", "w", "w", "w", ".", "i", "n", "m", "e", "d", "i", "a", "h", "k", ".", "n", "e", "t", "/", "n">> @@
    TitleFoo :> <<"F", "o", "o">> @@
    TitleFooBang :> <<"f", "o", "o", "!">> @@
    TitleFoo1 :> <<"F", "o", "o", " ", "1">> @@
    SourceBBC :> <<"B", "B", "C">> @@
    SourceHk01 :> <<"h", "k", "0", "1">>

(***************************************************************************)
(* Strings.                                                                *)
(***************************************************************************)
\* s[i:] of Python, with i counted from 1
DropTo(s, i) == SubSeq(s, i, Len(s))

\* s[i:].startswith(p)
StartsWithAt(s, p, i) ==
    /\ i + Len(p) - 1 <= Len(s)
    /\ SubSeq(s, i, i + Len(p) - 1) = p

SetMin(S) == CHOOSE m \in S : \A n \in S : m <= n
SetMax(S) == CHOOSE m \in S : \A n \in S : n <= m

\* str.find: the position (from 1) of the first occurrence of p in s at or
\* after i, 0 when there is none (Python's -1)
Find(s, p, i) ==
    LET hits == {j \in i..Len(s) : StartsWithAt(s, p, j)}
    IN  IF hits = {} THEN 0 ELSE SetMin(hits)

\* str.replace(p, ""): every non-overlapping occurrence, left to right
RECURSIVE Remove(_, _)
Remove(s, p) ==
    LET i == Find(s, p, 1)
    IN  IF i = 0 THEN s
        ELSE SubSeq(s, 1, i - 1) \o Remove(DropTo(s, i + Len(p)), p)

\* the longest prefix of s holding no character of stop
TakeUntil(s, stop) ==
    LET hits == {j \in 1..Len(s) : s[j] \in stop}
    IN  IF hits = {} THEN s ELSE SubSeq(s, 1, SetMin(hits) - 1)

UpperToLower ==
    [c \in {"A", "B", "C", "F", "H", "K"} |->
        CASE c = "A" -> "a" [] c = "B" -> "b" [] c = "C" -> "c"
          [] c = "F" -> "f" [] c = "H" -> "h" [] c = "K" -> "k"]

\* str.lower on the model's alphabet
Lower(s) ==
    [i \in 1..Len(s) |->
        IF s[i] \in DOMAIN UpperToLower THEN UpperToLower[s[i]] ELSE s[i]]

\* str(n) for n >= 0
RECURSIVE IntToStr(_)
IntToStr(n) ==
    LET d == <<"0", "1", "2", "3", "4", "5", "6", "7", "8", "9">>[(n % 10) + 1]
    IN  IF n < 10 THEN <<d>> ELSE IntToStr(n \div 10) \o <<d>>

(***************************************************************************)
(* slugify.                                                                *)
(***************************************************************************)
\* \w of the regular expressions: letters, digits and the underscore
WordChars ==
    {"a", "b", "c", "f", "h", "k", "o", "r", "x", "y", "z", "_",
     "A", "B", "C", "F", "H", "K",
     "0", "1", "2", "3", "4", "5", "6", "7", "8", "9"}
\* \s
SpaceChars == {" "}

\* re.sub(r"[^\w\s-]", "", text)
StripSymbols(s) ==
    SelectSeq(s, LAMBDA c : c \in WordChars \cup SpaceChars \cup {"-"})

\* re.sub(r"[-\s]+", "-", text): the first character of every run of
\* separators becomes "-", the rest of the run goes
CollapseSeparators(s) ==
    LET sep(i) == s[i] \in SpaceChars \cup {"-"}
        marked == [i \in 1..Len(s) |->
                     IF ~sep(i) THEN <<s[i]>>
                     ELSE IF i > 1 /\ sep(i - 1) THEN <<>> ELSE <<"-">>]
        kept == SelectSeq(marked, LAMBDA m : m # <<>>)
    IN  [i \in 1..Len(kept) |-> kept[i][1]]

\* text.strip("-")
StripDashes(s) ==
    LET body == {i \in 1..Len(s) : s[i] # "-"}
    IN  IF body = {} THEN <<>> ELSE SubSeq(s, SetMin(body), SetMax(body))

\* text[:max_length].rsplit("-", 1)[0]
Truncate(s, max_length) ==
    LET cut == SubSeq(s, 1, max_length)
        dashes == {i \in 1..Len(cut) : cut[i] = "-"}
    IN  IF dashes = {} THEN cut ELSE SubSeq(cut, 1, SetMax(dashes) - 1)

\* slugify(text, max_length): unicodedata.normalize("NFKD", _) leaves the
\* ASCII titles of the model as they are
slugify(text, max_length) ==
    LET t0 == Lower(text)
        t1 == StripSymbols(t0)
        t2 == CollapseSeparators(t1)
        t3 == StripDashes(t2)
        t4 == IF Len(t3) > max_length THEN Truncate(t3, max_length) ELSE t3
    IN  IF t4 = <<>>
        THEN <<"u", "n", "t", "i", "t", "l", "e", "d">>
        ELSE t4

(***************************************************************************)
(* URLs and domains.                                                       *)
(***************************************************************************)
\* urlparse(url).netloc: what follows "://" up to the next "/", "?" or "#"
netloc(url) ==
    LET i == Find(url, <<":", "/", "/">>, 1)
    IN  IF i = 0 THEN <<>>
        ELSE TakeUntil(DropTo(url, i + 3), {"/", "?", "#"})

\* get_domain(url)
get_domain(url) == Remove(netloc(Chars[url]), <<"w", "w", "w", ".">>)

(***************************************************************************)
(* The candidate lists.                                                    *)
(***************************************************************************)
\* the directories of NEWS_DIR that hold a README (discover_news_sources)
NewsDirs == {Chars[SourceBBC], Chars[SourceHk01]}

\* the README a source's candidates come from (get_all_urls: filepath)
SourceFile(source) == <<source, "README.md">>

\* one element of get_all_urls' list
UrlInfo(url, title, source) ==
    [url |-> url, title |-> title, source |-> source,
     source_file |-> SourceFile(source)]

\* the candidates the lists of Spec are made of
CandidateUniverse ==
    { UrlInfo(UrlA1, TitleFoo, SourceBBC),
      UrlInfo(UrlA2, TitleFooBang, SourceBBC),
      UrlInfo(UrlA1, TitleFoo1, SourceBBC),
      UrlInfo(UrlA1, TitleFoo, SourceHk01),
      UrlInfo(UrlIm, TitleFoo, SourceBBC) }

\* the lists of at most n elements of S
ListsUpTo(S, n) == UNION {[1..k -> S] : k \in 1..n}

\* the elements of a list
Range(s) == {s[i] : i \in 1..Len(s)}

(***************************************************************************)
(* The state.                                                              *)
(***************************************************************************)
VARIABLES
    all_urls,       \* get_all_urls(): the candidate list, the same in every run
    max_retries,    \* config["rate_limit"]["max_retries"]
    max_domains,    \* the value given to asyncio.Semaphore
    run,            \* how many runs of run_scraper_async have started; also
                    \* datetime.now(), to the granularity of a run
    main_pc,        \* run_scraper_async: "idle", "gather" or "returned"
    registry,       \* the registry dict of the run
    registry_file,  \* REGISTRY_FILE
    archive,        \* the archive directories: <<source dir, name>> -> files
    tasks,          \* the bounded_scrape tasks, in the order of domains.items()
    semaphore,      \* the free slots of the semaphore
    results,        \* the results dict
    progress,       \* the progress dict
    keys_at_start,  \* history: the registry's keys when the run started
    dirs_at_start,  \* history: the archive directories when the run started
    ok_count,       \* history: per URL, the fetches that succeeded
    dl_failed,      \* history: the URLs a download-triggered failure ended, this run
    saved,          \* what the last direct call of save_archive got and returned
    docs,           \* the README of a source, and what the last annotation did to it
    dry_run,        \* the dry_run argument of the last call of run_scraper_async
    limit           \* its limit argument, 0 for None

vars == <<all_urls, max_retries, max_domains, run, main_pc, registry,
          registry_file, archive, tasks, semaphore, results, progress,
          keys_at_start, dirs_at_start, ok_count, dl_failed, saved, docs,
          dry_run, limit>>

(***************************************************************************)
(* Registry.                                                               *)
(***************************************************************************)
EmptyRegistry == [scraped_urls |-> <<>>, last_updated |-> 0]

\* the registry file: whether it exists, the registry last dumped into it,
\* and whether that dump was written to its end (a rewrite opens the file
\* with "w", which empties it, and then writes the JSON text piece by piece)
RegistryFile(exists, data, complete) ==
    [exists |-> exists, data |-> data, complete |-> complete]

\* json.load(f): the registry of a complete dump; a dump cut short is no
\* JSON text and json.load raises JSONDecodeError
json_load(file) ==
    [raised |-> ~file.complete,
     value |-> IF file.complete THEN file.data ELSE EmptyRegistry]

\* load_registry(): what json.load gives or raises, the empty registry
\* without a file
load_registry(file) ==
    IF file.exists THEN json_load(file)
    ELSE [raised |-> FALSE, value |-> EmptyRegistry]

\* save_registry(registry) at time now: the registry as it is afterwards;
\* the file then holds the same
save_registry(reg, now) == [reg EXCEPT !.last_updated = now]

\* registry["scraped_urls"][url] = entry
\* a faulty variant of SetEntry: the entry is put into a registry of its own
SetEntry_alone(reg, url, entry) ==
    [reg EXCEPT !.scraped_urls = [u \in {url} |-> entry]]

SetEntry(reg, url, entry) ==
    [reg EXCEPT !.scraped_urls =
        [u \in DOMAIN reg.scraped_urls \cup {url} |->
            IF u = url THEN entry ELSE reg.scraped_urls[u]]]

\* a faulty variant of filter_new_urls: nothing is filtered
filter_nothing(urls, reg) == urls

\* filter_new_urls(urls, registry)
filter_new_urls(urls, reg) ==
    SelectSeq(urls, LAMBDA u : u.url \notin DOMAIN reg.scraped_urls)

(***************************************************************************)
(* Archive store.                                                          *)
(***************************************************************************)
\* scrape_domain_queue: NEWS_DIR / source.lower(), or the directory whose
\* lowered name is source.lower()
SourceDir(source) ==
    IF Lower(Chars[source]) \in NewsDirs THEN Lower(Chars[source])
    ELSE CHOOSE d \in NewsDirs : Lower(d) = Lower(Chars[source])

\* SourceDir(source), computed once per source
SourceDirOf == [s \in Sources |-> SourceDir(s)]

\* source.lower(), computed once per source
LowerSource == [s \in Sources |-> Lower(Chars[s])]

\* slugify(title), computed once per title
SlugOf == [t \in Titles |-> slugify(Chars[t], SlugMaxLength)]

\* archive_dir / f"{slug}-{counter}"
Suffixed(slug, counter) == slug \o <<"-">> \o IntToStr(counter)

\* get_existing_archive_url(folder): the url of its metadata.json
get_existing_archive_url(arch, folder) == arch[folder].metadata.url

\* save_archive's while loop: the first counter whose directory is free or
\* holds this url
RECURSIVE ProbeCounter(_, _, _, _, _)
ProbeCounter(arch, source_dir, slug, url, counter) ==
    LET dir == <<source_dir, Suffixed(slug, counter)>>
    IN  IF dir \notin DOMAIN arch THEN counter
        ELSE IF get_existing_archive_url(arch, dir) = url THEN counter
        ELSE ProbeCounter(arch, source_dir, slug, url, counter + 1)

\* the two files save_archive writes into a new directory
ArchiveFiles(url_info, html, article_dir, now) ==
    [html |-> html,
     metadata |-> [url |-> url_info.url,
                   title |-> url_info.title,
                   source |-> LowerSource[url_info.source],
                   source_file |-> url_info.source_file,
                   scraped_at |-> now,
                   archive_path |-> article_dir]]

\* a faulty variant of save_archive: no probing, a taken slug gives slug-1
save_archive_first_suffix(arch, url_info, html, source_dir, now) ==
    LET slug == SlugOf[url_info.title]
        first_dir == <<source_dir, slug>>
        dir == IF first_dir \in DOMAIN arch
               THEN <<source_dir, Suffixed(slug, 1)>> ELSE first_dir
    IN  [archive |-> [d \in DOMAIN arch \cup {dir} |->
                        IF d = dir
                        THEN ArchiveFiles(url_info, html, dir, now)
                        ELSE arch[d]],
         path |-> dir, created |-> TRUE]

\* a faulty variant of save_archive: a slug taken by another URL is written
\* over
save_archive_overwrite(arch, url_info, html, source_dir, now) ==
    LET dir == <<source_dir, SlugOf[url_info.title]>>
    IN  IF dir \in DOMAIN arch
           /\ get_existing_archive_url(arch, dir) = url_info.url
        THEN [archive |-> arch, path |-> dir, created |-> FALSE]
        ELSE [archive |-> [d \in DOMAIN arch \cup {dir} |->
                             IF d = dir
                             THEN ArchiveFiles(url_info, html, dir, now)
                             ELSE arch[d]],
              path |-> dir, created |-> TRUE]

\* save_archive(url_info, html, source_dir) at time now:
\* the archive afterwards, the path returned and created_new
save_archive(arch, url_info, html, source_dir, now) ==
    LET slug == SlugOf[url_info.title]
        url == url_info.url
        first_dir == <<source_dir, slug>>
        counter == ProbeCounter(arch, source_dir, slug, url, 1)
        probed_dir == <<source_dir, Suffixed(slug, counter)>>
        Existing(dir) == [archive |-> arch, path |-> dir, created |-> FALSE]
        Created(dir) ==
            [archive |-> [d \in DOMAIN arch \cup {dir} |->
                            IF d = dir
                            THEN ArchiveFiles(url_info, html, dir, now)
                            ELSE arch[d]],
             path |-> dir, created |-> TRUE]
    IN  IF first_dir \in DOMAIN arch
        THEN IF get_existing_archive_url(arch, first_dir) = url
             THEN Existing(first_dir)
             ELSE IF probed_dir \in DOMAIN arch
                  THEN Existing(probed_dir)
                  ELSE Created(probed_dir)
        ELSE Created(first_dir)

(***************************************************************************)
(* Markdown annotator: _add_buttons_to_line,                               *)
(* add_archive_buttons_to_markdown, update_markdown_from_registry.         *)
(***************************************************************************)
\* the line boundaries of str.splitlines on the model's alphabet: the line
\* feed and the form feed
LineBoundaries == {"\n", "\f"}

\* \s of the regular expressions on the model's alphabet
Whitespace == {" ", "\t", "\n", "\f"}

ArchiveMark == <<"A", "r", "c", "h", "i", "v", "e", "]", "(">>
OriginalMark == <<"O", "r", "i", "g", "i", "n", "a", "l", "]", "(">>
ButtonTag == <<".", "h", "k", "f", "d", "-", "n", "e", "w", "s", "-", "b", "u", "t", "t", "o", "n">>
PrimaryClasses == <<"{", ".", "m", "d", "-", "b", "u", "t", "t", "o", "n", " ", ".", "m", "d", "-", "b", "u", "t", "t", "o", "n", "-", "-", "p", "r", "i", "m", "a", "r", "y", "}">>
PrimaryClassesTagged ==
    <<"{", ".", "m", "d", "-", "b", "u", "t", "t", "o", "n", " ", ".", "m", "d", "-", "b", "u", "t", "t", "o", "n", "-", "-", "p", "r", "i", "m", "a", "r", "y", " ", ".", "h", "k", "f", "d", "-", "n", "e", "w", "s", "-", "b", "u", "t", "t", "o", "n", "}">>
PlainClasses == <<"{", ".", "m", "d", "-", "b", "u", "t", "t", "o", "n", "}">>
PlainClassesTagged == <<"{", ".", "m", "d", "-", "b", "u", "t", "t", "o", "n", " ", ".", "h", "k", "f", "d", "-", "n", "e", "w", "s", "-", "b", "u", "t", "t", "o", "n", "}">>

\* p in s
Contains(s, p) == Find(s, p, 1) > 0

\* s.replace(p, r): every non-overlapping occurrence, left to right
RECURSIVE Replace(_, _, _)
Replace(s, p, r) ==
    LET i == Find(s, p, 1)
    IN  IF i = 0 THEN s
        ELSE SubSeq(s, 1, i - 1) \o r \o Replace(DropTo(s, i + Len(p)), p, r)

\* text.splitlines(keepends=True)
RECURSIVE SplitLines(_)
SplitLines(text) ==
    LET ends == {j \in 1..Len(text) : text[j] \in LineBoundaries}
    IN  IF text = <<>> THEN <<>>
        ELSE IF ends = {} THEN <<text>>
        ELSE <<SubSeq(text, 1, SetMin(ends))>>
                 \o SplitLines(DropTo(text, SetMin(ends) + 1))

\* "".join(lines)
RECURSIVE Join(_)
Join(lines) == IF lines = <<>> THEN <<>> ELSE Head(lines) \o Join(Tail(lines))

\* line.rstrip("\n")
RStripNewlines(line) ==
    LET keep == {j \in 1..Len(line) : line[j] # "\n"}
    IN  IF keep = {} THEN <<>> ELSE SubSeq(line, 1, SetMax(keep))

\* the number of characters of cs at the start of s[i:]
RunOf(s, i, cs) ==
    LET stop == {j \in i..Len(s) : s[j] \notin cs}
    IN  IF stop = {} THEN Len(s) - i + 1 ELSE SetMin(stop) - i

\* list_link_re.match(line) for
\* ^(\s*[-*]\s+)\[[^\]]+\]\((url)\).*$ with re.MULTILINE: the tail .*$ matches
\* whatever follows, up to the end or to the first line feed
ListLinkMatch(line, url) ==
    LET bullet == 1 + RunOf(line, 1, Whitespace)
        gap == RunOf(line, bullet + 1, Whitespace)
        open_bracket == bullet + 1 + gap
        close_bracket == Find(line, <<"]">>, open_bracket + 1)
    IN  /\ bullet <= Len(line)
        /\ line[bullet] \in {"-", "*"}
        /\ gap >= 1
        /\ open_bracket <= Len(line)
        /\ line[open_bracket] = "["
        /\ close_bracket > open_bracket + 1
        /\ StartsWithAt(line, <<"(">> \o url \o <<")">>, close_bracket + 1)

\* _add_buttons_to_line(line, url, archive_link)
add_buttons_to_line(line, url, archive_link) ==
    LET original_button ==
            <<"[", "O", "r", "i", "g", "i", "n", "a", "l", "]", "(">> \o url \o <<")">> \o PrimaryClassesTagged
        archive_button ==
            <<"[", "A", "r", "c", "h", "i", "v", "e", "]", "(">> \o archive_link \o <<")">> \o PlainClassesTagged
    IN  IF Contains(line, ArchiveMark) \/ Contains(line, OriginalMark)
        THEN IF Contains(line, ButtonTag) THEN line
             ELSE Replace(Replace(line, PrimaryClasses, PrimaryClassesTagged),
                          PlainClasses, PlainClassesTagged)
        ELSE RStripNewlines(line) \o <<" ">> \o original_button
                 \o <<" ">> \o archive_button \o <<"\n">>

\* _archive_link_for_source_file for an archive directory of the README's
\* own source: archive/<name>/
archive_link_for_source_file(archive_dir) ==
    <<"a", "r", "c", "h", "i", "v", "e", "/">> \o archive_dir[2] \o <<"/">>

\* add_archive_buttons_to_markdown(source_file, url, archive_dir) on a file
\* that exists and can be written: its text afterwards and the value returned
add_archive_buttons_to_markdown(text, url, archive_dir) ==
    LET archive_link == archive_link_for_source_file(archive_dir)
        lines == SplitLines(text)
        new_lines ==
            [i \in 1..Len(lines) |->
                IF ListLinkMatch(lines[i], url)
                THEN add_buttons_to_line(lines[i], url, archive_link)
                ELSE lines[i]]
        changed == new_lines # lines
    IN  [text |-> IF changed THEN Join(new_lines) ELSE text,
         changed |-> changed]

(***************************************************************************)
(* Domain partitioner.                                                     *)
(***************************************************************************)
\* grouped[domain].append(url_info), the dict kept as the list of its items
GroupAdd(grouped, url_info) ==
    LET domain == get_domain(url_info.url)
        at == {k \in 1..Len(grouped) : grouped[k].domain = domain}
    IN  IF at = {}
        THEN Append(grouped, [domain |-> domain, urls |-> <<url_info>>])
        ELSE [grouped EXCEPT ![SetMin(at)].urls = Append(@, url_info)]

RECURSIVE GroupFrom(_, _)
GroupFrom(grouped, urls) ==
    IF urls = <<>> THEN grouped
    ELSE GroupFrom(GroupAdd(grouped, Head(urls)), Tail(urls))

\* a faulty variant of group_urls_by_domain: one group per candidate
group_one_per_url(urls) ==
    [k \in 1..Len(urls) |->
        [domain |-> get_domain(urls[k].url), urls |-> <<urls[k]>>]]

\* group_urls_by_domain(urls): domains.items(), in insertion order
group_urls_by_domain(urls) == GroupFrom(<<>>, urls)

(***************************************************************************)
(* Fetch strategy chain: one invocation of scrape_url_async.               *)
(***************************************************************************)
DefaultStrategies ==
    <<"domcontentloaded", "networkidle", "no-http2", "requests-fallback">>
InmediaStrategies == <<"uc-fallback">>

\* url.find("inmediahk.net") > -1
IsInmedia(url) == Find(Chars[url], <<"i", "n", "m", "e", "d", "i", "a", "h", "k", ".", "n", "e", "t">>, 1) > 0

strategies(url) ==
    IF IsInmedia(url) THEN InmediaStrategies ELSE DefaultStrategies

\* strategies(url), computed once per URL
StrategiesOf == [u \in Urls |-> strategies(u)]

Min(a, b) == IF a <= b THEN a ELSE b

\* a faulty variant of strategy_idx: every attempt uses the first strategy
strategy_idx_first(url, retries) == 0

\* strategy_idx = min(retries, len(strategies) - 1)
strategy_idx(url, retries) == Min(retries, Len(StrategiesOf[url]) - 1)

\* strategies[strategy_idx]
strategy(url, retries) == StrategiesOf[url][strategy_idx(url, retries) + 1]

\* the strategies that return what their fetcher returns, without a page
DirectStrategies == {"requests-fallback", "uc-fallback"}

\* html is kept as len(html)
ContentLengths == {0, MinContentLength - 1, MinContentLength}

\* what the network does to one attempt: content of some length, a
\* PlaywrightTimeout, an error saying "Download is starting", another error
Outcomes ==
    [kind : {"content"}, len : ContentLengths]
        \cup [kind : {"timeout", "download", "error"}, len : {0}]

\* requests.get and the browser driver raise no download error
OutcomesOf(strat) ==
    IF strat \in DirectStrategies
    THEN {o \in Outcomes : o.kind # "download"}
    ELSE Outcomes

\* 2**n
RECURSIVE Pow2(_)
Pow2(n) == IF n = 0 THEN 1 ELSE 2 * Pow2(n - 1)

\* a faulty variant of backoff_seconds: the same sleep before every retry
backoff_seconds_constant(retries) == 1

\* the argument of asyncio.sleep before the retry: 2**retries
backoff_seconds(retries) == Pow2(retries)

Returned(html, success) ==
    [kind |-> "return", html |-> html, success |-> success]
Retried == [kind |-> "retry", html |-> 0, success |-> FALSE]

\* a faulty variant of scrape_url_async: a download error is retried like any other
scrape_url_async_retry_download(url, maxr, retries, out) ==
    LET strat == strategy(url, retries)
    IN  IF strat \in DirectStrategies
        THEN IF out.kind = "content"
             THEN Returned(out.len, TRUE) ELSE Returned(0, FALSE)
        ELSE IF out.kind = "content" /\ out.len >= MinContentLength
             THEN Returned(out.len, TRUE)
        ELSE IF retries < maxr THEN Retried
        ELSE Returned(0, FALSE)

\* a faulty variant of scrape_url_async: one retry too few (retries + 1 < max_retries)
scrape_url_async_retry_less(url, maxr, retries, out) ==
    LET strat == strategy(url, retries)
    IN  IF strat \in DirectStrategies
        THEN IF out.kind = "content"
             THEN Returned(out.len, TRUE) ELSE Returned(0, FALSE)
        ELSE IF out.kind = "content" /\ out.len >= MinContentLength
             THEN Returned(out.len, TRUE)
        ELSE IF out.kind = "download" THEN Returned(0, FALSE)
        ELSE IF retries + 1 < maxr THEN Retried
        ELSE Returned(0, FALSE)

\* scrape_url_async(url_info, context, config, retries, browser) up to its
\* return or its recursive call, when the network answers out
scrape_url_async(url, maxr, retries, out) ==
    LET strat == strategy(url, retries)
    IN  IF strat \in DirectStrategies
        THEN \* scrape_with_requests, scrape_with_uc_inmedia
             IF out.kind = "content"
             THEN Returned(out.len, TRUE) ELSE Returned(0, FALSE)
        ELSE IF out.kind = "content" /\ out.len >= MinContentLength
             THEN Returned(out.len, TRUE)
        ELSE IF out.kind = "download" THEN Returned(0, FALSE)
        ELSE \* PlaywrightTimeout, ValueError (too short), any other error
             IF retries < maxr THEN Retried
        ELSE Returned(0, FALSE)

(***************************************************************************)
(* Scheduler: run_scraper_async, bounded_scrape, scrape_domain_queue.      *)
(***************************************************************************)
NoResults == [success |-> 0, failed |-> 0, failed_urls |-> <<>>]

\* what the fetches of a task hold open: pages, contexts made for the
\* no-http2 strategy, browser drivers of the inmedia strategy
NoneOpen == [pages |-> 0, contexts |-> 0, drivers |-> 0]

\* what is open after the attempt with strategy strat that met out and ended
\* as r: a retry is called inside the except clause, before the finally
\* clause closes the page and the context; a return runs the finally clauses
\* of every level; scrape_with_uc_inmedia closes its driver only after it
\* has read the content, uc.Chrome failing (error) leaves no driver
OpenAfter(open, strat, out, r) ==
    IF strat = "uc-fallback"
    THEN [open EXCEPT !.drivers = IF out.kind = "timeout" THEN @ + 1 ELSE @]
    ELSE IF r.kind = "retry"
    THEN [open EXCEPT !.pages = @ + 1,
                      !.contexts = IF strat = "no-http2" THEN @ + 1 ELSE @]
    ELSE [open EXCEPT !.pages = 0, !.contexts = 0]

\* a bounded_scrape task before it has the semaphore
NewTask(group) ==
    [domain |-> group.domain, urls |-> group.urls, pc |-> "waiting", i |-> 0,
     retries |-> 0, html |-> 0, success |-> FALSE,
     attempts |-> 0, soft |-> TRUE,
     delays |-> 0, open |-> NoneOpen, fault |-> "none", desc |-> "none",
     backoffs |-> <<>>]

\* urls.index(url_info), counted from 1
IndexOf(urls, url_info) ==
    SetMin({k \in 1..Len(urls) : urls[k] = url_info})

\* the task at the top of the next iteration of "for url_info in urls", or
\* past the loop
NextIteration(tk) ==
    IF tk.i < Len(tk.urls)
    THEN [tk EXCEPT !.i = @ + 1, !.pc = "fetching", !.retries = 0,
                    !.html = 0, !.success = FALSE,
                    !.attempts = 0, !.soft = TRUE, !.desc = "none",
                    !.backoffs = <<>>]
    ELSE [tk EXCEPT !.pc = "closing", !.retries = 0, !.html = 0,
                    !.success = FALSE, !.attempts = 0, !.soft = TRUE,
                    !.desc = "none", !.backoffs = <<>>]

\* progress["current"] += 1 at the top of an iteration
Progressed(tk) ==
    IF tk.i < Len(tk.urls)
    THEN [progress EXCEPT !.current = @ + 1] ELSE progress

InFlightPcs == {"fetching", "backoff", "returning"}

\* where run_scraper_async is when no run is going on: not yet called,
\* returned after scraping or with nothing new, returned from the dry run,
\* left by an exception, or killed with its process
StoppedPcs == {"idle", "returned", "dry_run", "raised", "crashed"}
ExecutingPcs == {"fetching", "backoff", "returning", "sleeping", "closing"}

\* a faulty variant of AfterFilter: the dry run goes on to scrape
AfterFilter_ignores_dry_run(raised, dry, new_urls) ==
    IF raised THEN "raised"
    ELSE IF new_urls = <<>> THEN "returned"
    ELSE "gather"

\* where run_scraper_async goes once the new URLs are known: out with the
\* exception of load_registry, out of the dry run after printing the
\* distribution, out with nothing new, or on to asyncio.gather
AfterFilter(raised, dry, new_urls) ==
    IF raised THEN "raised"
    ELSE IF dry THEN "dry_run"
    ELSE IF new_urls = <<>> THEN "returned"
    ELSE "gather"

\* run_scraper_async up to asyncio.gather, or to its return (limit is None)
StartRun ==
    /\ main_pc \in StoppedPcs
    /\ run < MaxRuns
    /\ \E dry \in BOOLEAN :
         LET loaded == load_registry(registry_file)
             reg == loaded.value
             new_urls == filter_new_urls(all_urls, reg)
             domains == group_urls_by_domain(new_urls)
             pc == AfterFilter(loaded.raised, dry, new_urls)
         IN  /\ dry_run' = dry
             /\ limit' = 0
             /\ registry' = reg
             /\ keys_at_start' = DOMAIN reg.scraped_urls
             /\ main_pc' = pc
             /\ tasks' = IF pc = "gather"
                         THEN [k \in 1..Len(domains) |-> NewTask(domains[k])]
                         ELSE <<>>
             /\ progress' = [current |-> 0,
                             total |-> IF pc = "gather"
                                       THEN Len(new_urls) ELSE 0]
    /\ run' = run + 1
    /\ results' = NoResults
    /\ semaphore' = max_domains
    /\ dirs_at_start' = DOMAIN archive
    /\ dl_failed' = {}
    /\ UNCHANGED <<all_urls, max_retries, max_domains, registry_file, archive,
                   ok_count, saved, docs>>

\* a faulty variant of Acquire: the task goes on without a free slot
Acquire_without_slot(t) ==
    /\ main_pc = "gather"
    /\ tasks[t].pc = "waiting"
    /\ \A k \in 1..(t - 1) : tasks[k].pc # "waiting"
    /\ semaphore' = semaphore - 1
    /\ tasks' = [tasks EXCEPT ![t] = NextIteration(@)]
    /\ progress' = Progressed(tasks[t])
    /\ UNCHANGED <<all_urls, max_retries, max_domains, run, main_pc, registry,
                   registry_file, archive, results, keys_at_start,
                   dirs_at_start, ok_count, dl_failed, saved, docs, dry_run,
                   limit>>

\* bounded_scrape gets a slot ("async with semaphore", waiters are woken in
\* order), scrape_domain_queue opens its context and starts its first URL
Acquire(t) ==
    /\ main_pc = "gather"
    /\ tasks[t].pc = "waiting"
    /\ semaphore > 0
    /\ \A k \in 1..(t - 1) : tasks[k].pc # "waiting"
    /\ semaphore' = semaphore - 1
    /\ tasks' = [tasks EXCEPT ![t] = NextIteration(@)]
    /\ progress' = Progressed(tasks[t])
    /\ UNCHANGED <<all_urls, max_retries, max_domains, run, main_pc, registry,
                   registry_file, archive, results, keys_at_start,
                   dirs_at_start, ok_count, dl_failed, saved, docs, dry_run,
                   limit>>

\* one invocation of scrape_url_async: the attempt with strategy number
\* min(retries, last), up to the return or to the call of
\* asyncio.sleep(2**retries) before the retry
Attempt(t) ==
    /\ main_pc = "gather"
    /\ tasks[t].pc = "fetching"
    /\ LET tk == tasks[t]
           url == tk.urls[tk.i].url
       IN  \E out \in OutcomesOf(strategy(url, tk.retries)) :
             LET r == scrape_url_async(url, max_retries, tk.retries, out)
                 soft == tk.soft /\ ~r.success /\ out.kind # "download"
             IN  /\ tasks' = [tasks EXCEPT ![t] =
                        [tk EXCEPT !.pc = IF r.kind = "retry"
                                          THEN "backoff" ELSE "returning",
                                   !.html = r.html,
                                   !.success = r.success,
                                   !.attempts = @ + 1,
                                   !.soft = soft,
                                   !.desc = strategy(url, tk.retries),
                                   !.backoffs =
                                       IF r.kind = "retry"
                                       THEN Append(@, backoff_seconds(
                                                          tk.retries))
                                       ELSE @,
                                   !.open = OpenAfter(
                                       @, strategy(url, tk.retries), out, r)]]
                 /\ dl_failed' = IF out.kind = "download"
                                 THEN dl_failed \cup {url} ELSE dl_failed
    /\ UNCHANGED <<all_urls, max_retries, max_domains, run, main_pc, registry,
                   registry_file, archive, semaphore, results, progress,
                   keys_at_start, dirs_at_start, ok_count, saved, docs, dry_run,
                   limit>>

\* await asyncio.sleep(2**retries), then the recursive call with retries + 1
Backoff(t) ==
    /\ main_pc = "gather"
    /\ tasks[t].pc = "backoff"
    /\ tasks' = [tasks EXCEPT ![t].pc = "fetching", ![t].retries = @ + 1]
    /\ UNCHANGED <<all_urls, max_retries, max_domains, run, main_pc, registry,
                   registry_file, archive, semaphore, results, progress,
                   keys_at_start, dirs_at_start, ok_count, dl_failed, saved, docs, dry_run,
                   limit>>

\* registry["scraped_urls"][url] = {...}
RegistryEntry(url_info, archive_dir, now) ==
    [title |-> url_info.title,
     source |-> LowerSource[url_info.source],
     source_file |-> url_info.source_file,
     scraped_at |-> now,
     archive_path |-> archive_dir]

\* a faulty variant of CountSuccess: the increment is lost
CountSuccess_lost(res) == res

\* results["success"] += 1
CountSuccess(res) == [res EXCEPT !.success = @ + 1]

\* results["failed"] += 1; results["failed_urls"].append(url)
CountFailure(res, url) ==
    [res EXCEPT !.failed = @ + 1, !.failed_urls = Append(@, url)]

\* scrape_url_async has returned; scrape_domain_queue archives and records
\* the page, or counts the failure, then sleeps before the next URL or
\* leaves the loop
Complete(t) ==
    /\ main_pc = "gather"
    /\ tasks[t].pc = "returning"
    /\ LET tk == tasks[t]
           url_info == tk.urls[tk.i]
           url == url_info.url
           sv == save_archive(archive, url_info, tk.html,
                              SourceDirOf[url_info.source], run)
           reg == save_registry(
                      SetEntry(registry, url,
                               RegistryEntry(url_info, sv.path, run)),
                      run)
           done == [tk EXCEPT !.retries = 0, !.html = 0, !.success = FALSE,
                              !.attempts = 0, !.soft = TRUE, !.desc = "none",
                              !.backoffs = <<>>]
       IN  /\ IF tk.success /\ tk.html # 0
              THEN /\ archive' = sv.archive
                   /\ registry' = reg
                   /\ registry_file' = RegistryFile(TRUE, reg, TRUE)
                   /\ results' = CountSuccess(results)
                   /\ ok_count' = [ok_count EXCEPT ![url] = @ + 1]
              ELSE /\ results' = CountFailure(results, url)
                   /\ UNCHANGED <<archive, registry, registry_file,
                                  ok_count>>
           /\ IF IndexOf(tk.urls, url_info) < Len(tk.urls)
              THEN /\ tasks' = [tasks EXCEPT ![t] =
                                   [done EXCEPT !.pc = "sleeping",
                                                !.delays = @ + 1]]
                   /\ progress' = progress
              ELSE /\ tasks' = [tasks EXCEPT ![t] = NextIteration(done)]
                   /\ progress' = Progressed(done)
    /\ UNCHANGED <<all_urls, max_retries, max_domains, run, main_pc,
                   semaphore, keys_at_start, dirs_at_start, dl_failed, saved, docs, dry_run,
                   limit>>

\* await asyncio.sleep(delay + jitter) is over: the next URL, or the end of
\* the loop
Wake(t) ==
    /\ main_pc = "gather"
    /\ tasks[t].pc = "sleeping"
    /\ tasks' = [tasks EXCEPT ![t] = NextIteration(@)]
    /\ progress' = Progressed(tasks[t])
    /\ UNCHANGED <<all_urls, max_retries, max_domains, run, main_pc, registry,
                   registry_file, archive, semaphore, results,
                   keys_at_start, dirs_at_start, ok_count, dl_failed, saved, docs, dry_run,
                   limit>>

\* a faulty variant of Finish: the task ends and keeps its slot
Finish_keeps_slot(t) ==
    /\ main_pc = "gather"
    /\ tasks[t].pc = "closing"
    /\ tasks' = [tasks EXCEPT ![t].pc = "done"]
    /\ UNCHANGED <<all_urls, max_retries, max_domains, run, main_pc, registry,
                   registry_file, archive, semaphore, results, progress,
                   keys_at_start, dirs_at_start, ok_count, dl_failed, saved,
                   docs, dry_run, limit>>

\* await context.close(), and bounded_scrape gives its slot back
Finish(t) ==
    /\ main_pc = "gather"
    /\ tasks[t].pc = "closing"
    /\ tasks' = [tasks EXCEPT ![t].pc = "done"]
    /\ semaphore' = semaphore + 1
    /\ UNCHANGED <<all_urls, max_retries, max_domains, run, main_pc, registry,
                   registry_file, archive, results, progress,
                   keys_at_start, dirs_at_start, ok_count, dl_failed, saved, docs, dry_run,
                   limit>>

\* asyncio.gather is over: browser.close() and "return results"
Return ==
    /\ main_pc = "gather"
    /\ \A t \in 1..Len(tasks) : tasks[t].pc = "done"
    /\ main_pc' = "returned"
    /\ UNCHANGED <<all_urls, max_retries, max_domains, run, registry,
                   registry_file, archive, tasks, semaphore, results, progress,
                   keys_at_start, dirs_at_start, ok_count, dl_failed,
                   saved, docs, dry_run,
                   limit>>

\* no README is looked at: the scheduler is run with update_markdown = False
NoDocs == [text |-> <<>>, before |-> <<>>, passes |-> 0,
           stats |-> [updated_files |-> 0, updated_links |-> 0,
                      skipped |-> 0]]

NoSave == [url_info |-> UrlInfo("", "", ""), path |-> <<>>,
           created |-> FALSE, before |-> <<>>, calls |-> {}]

InitState ==
    /\ run = 0
    /\ main_pc = "idle"
    /\ registry = EmptyRegistry
    /\ registry_file = RegistryFile(FALSE, EmptyRegistry, TRUE)
    /\ archive = <<>>
    /\ tasks = <<>>
    /\ semaphore = max_domains
    /\ results = NoResults
    /\ progress = [current |-> 0, total |-> 0]
    /\ keys_at_start = {}
    /\ dirs_at_start = {}
    /\ ok_count = [u \in Urls |-> 0]
    /\ dl_failed = {}
    /\ saved = NoSave
    /\ docs = NoDocs
    /\ dry_run = FALSE
    /\ limit = 0

Init ==
    /\ all_urls \in ListsUpTo(CandidateUniverse, MaxCands)
    /\ max_retries = MaxRetries
    /\ max_domains = MAX_CONCURRENT_DOMAINS
    /\ InitState

\* one step of the event loop: a task that is ready runs to its next await
TaskStep ==
    \E t \in 1..Len(tasks) :
        \/ Acquire(t)
        \/ Attempt(t)
        \/ Backoff(t)
        \/ Complete(t)
        \/ Wake(t)
        \/ Finish(t)

Next ==
    \/ StartRun
    \/ TaskStep
    \/ Return

Spec == Init /\ [][Next]_vars

(***************************************************************************)
(* The same scheduler for every value of the semaphore, on the candidates  *)
(* of two domains.                                                         *)
(***************************************************************************)
SemUniverse ==
    { UrlInfo(UrlA1, TitleFoo, SourceBBC),
      UrlInfo(UrlA2, TitleFooBang, SourceBBC),
      UrlInfo(UrlIm, TitleFoo, SourceBBC) }

InitSem ==
    /\ all_urls \in ListsUpTo(SemUniverse, MaxCands)
    /\ max_retries = MaxRetries
    /\ max_domains \in 1..MAX_CONCURRENT_DOMAINS
    /\ InitState

SpecSem == InitSem /\ [][Next]_vars

\* the event loop does not stop while a task is ready, and gather returns
\* when every task is done
Fairness == WF_vars(TaskStep) /\ WF_vars(Return)

\* the lists of the liveness check: two domains are enough for a task to wait
InitSemFair ==
    /\ all_urls \in ListsUpTo(SemUniverse, MaxCandsFair)
    /\ max_retries = MaxRetries
    /\ max_domains \in 1..MAX_CONCURRENT_DOMAINS
    /\ InitState

FairSpecSem == InitSemFair /\ [][Next]_vars /\ Fairness

(***************************************************************************)
(* The same scheduler with deep retry budgets, on short lists.             *)
(***************************************************************************)
RetryUniverse ==
    { UrlInfo(UrlA1, TitleFoo, SourceBBC),
      UrlInfo(UrlIm, TitleFoo, SourceBBC) }

InitRetry ==
    /\ all_urls \in ListsUpTo(RetryUniverse, 2)
    /\ max_retries \in 0..MaxRetriesDeep
    /\ max_domains = MAX_CONCURRENT_DOMAINS
    /\ InitState

SpecRetry == InitRetry /\ [][Next]_vars

(***************************************************************************)
(* Runs with a limit.                                                      *)
(***************************************************************************)
\* the values of --limit: none (0 stands for None, and "if limit" is false
\* for both), a negative one, and positive ones
Limits == (-1)..MaxLimit

\* new_urls[:limit] under "if limit"
Limited(new_urls, lim) ==
    IF lim = 0 THEN new_urls
    ELSE IF lim > 0 THEN SubSeq(new_urls, 1, Min(lim, Len(new_urls)))
    ELSE IF Len(new_urls) + lim > 0
    THEN SubSeq(new_urls, 1, Len(new_urls) + lim)
    ELSE <<>>

\* run_scraper_async(dry_run, limit=lim) up to asyncio.gather, or to its
\* return
StartRunLimited ==
    /\ main_pc \in StoppedPcs
    /\ run < MaxRuns
    /\ \E dry \in BOOLEAN, lim \in Limits :
         LET loaded == load_registry(registry_file)
             reg == loaded.value
             new_urls == Limited(filter_new_urls(all_urls, reg), lim)
             domains == group_urls_by_domain(new_urls)
             pc == AfterFilter(loaded.raised, dry, new_urls)
         IN  /\ dry_run' = dry
             /\ limit' = lim
             /\ registry' = reg
             /\ keys_at_start' = DOMAIN reg.scraped_urls
             /\ main_pc' = pc
             /\ tasks' = IF pc = "gather"
                         THEN [k \in 1..Len(domains) |-> NewTask(domains[k])]
                         ELSE <<>>
             /\ progress' = [current |-> 0,
                             total |-> IF pc = "gather"
                                       THEN Len(new_urls) ELSE 0]
    /\ run' = run + 1
    /\ results' = NoResults
    /\ semaphore' = max_domains
    /\ dirs_at_start' = DOMAIN archive
    /\ dl_failed' = {}
    /\ UNCHANGED <<all_urls, max_retries, max_domains, registry_file, archive,
                   ok_count, saved, docs>>

InitLimit ==
    /\ all_urls \in ListsUpTo(SemUniverse, MaxCands)
    /\ max_retries = MaxRetries
    /\ max_domains = MAX_CONCURRENT_DOMAINS
    /\ InitState

NextLimit ==
    \/ StartRunLimited
    \/ TaskStep
    \/ Return

SpecLimit == InitLimit /\ [][NextLimit]_vars

(***************************************************************************)
(* Runs whose process may be killed.                                       *)
(***************************************************************************)
\* the process dies while its tasks wait for the network or sleep: what it
\* held in memory is gone, the files stay as they are
Killed ==
    /\ main_pc' = "crashed"
    /\ tasks' = <<>>
    /\ registry' = EmptyRegistry
    /\ results' = NoResults
    /\ progress' = [current |-> 0, total |-> 0]
    /\ semaphore' = max_domains
    /\ UNCHANGED <<all_urls, max_retries, max_domains, run, keys_at_start,
                   dirs_at_start, ok_count, dl_failed, saved, docs, dry_run,
                   limit>>

Crash ==
    /\ main_pc = "gather"
    /\ Killed
    /\ UNCHANGED <<archive, registry_file>>

\* the process dies inside the success branch of scrape_domain_queue: after
\* save_archive has returned, or while save_registry rewrites the file,
\* which open(REGISTRY_FILE, "w") has emptied by then
CrashInRecord(t) ==
    /\ main_pc = "gather"
    /\ tasks[t].pc = "returning"
    /\ tasks[t].success /\ tasks[t].html # 0
    /\ LET tk == tasks[t]
           url_info == tk.urls[tk.i]
           sv == save_archive(archive, url_info, tk.html,
                              SourceDirOf[url_info.source], run)
           reg == save_registry(
                      SetEntry(registry, url_info.url,
                               RegistryEntry(url_info, sv.path, run)),
                      run)
       IN  \E rewriting \in BOOLEAN :
             /\ archive' = sv.archive
             /\ registry_file' = IF rewriting
                                 THEN RegistryFile(TRUE, reg, FALSE)
                                 ELSE registry_file
    /\ Killed

InitCrash ==
    /\ all_urls \in ListsUpTo(SemUniverse, MaxCandsCrash)
    /\ max_retries = MaxRetries
    /\ max_domains = MAX_CONCURRENT_DOMAINS
    /\ InitState

NextCrash ==
    \/ Next
    \/ Crash
    \/ \E t \in 1..Len(tasks) : CrashInRecord(t)

SpecCrash == InitCrash /\ [][NextCrash]_vars

(***************************************************************************)
(* Runs in which the browser and the file system may raise.                *)
(***************************************************************************)
\* the calls of task tk that stand outside every try clause and may raise
\* where tk is: browser.new_context at the start of scrape_domain_queue,
\* use_context.new_page and the page.close of the finally clause in
\* scrape_url_async, save_archive in scrape_domain_queue
FaultPoints(tk, first_waiting) ==
    IF tk.pc = "waiting"
    THEN IF first_waiting /\ semaphore > 0 THEN {"new_context"} ELSE {}
    ELSE IF tk.pc = "fetching"
    THEN IF strategy(tk.urls[tk.i].url, tk.retries) \in DirectStrategies
         THEN {} ELSE {"new_page", "page_close"}
    ELSE IF tk.pc = "returning" /\ tk.success /\ tk.html # 0
    THEN {"save_archive"}
    ELSE {}

\* what stays open when the exception of point leaves scrape_url_async: the
\* context made for the no-http2 strategy is closed only after page.close
\* has returned, and a page whose close raised is not known to be closed
OpenAfterFault(tk, point) ==
    IF point \in {"new_page", "page_close"}
    THEN [tk.open EXCEPT
             !.pages = IF point = "page_close" THEN 1 ELSE 0,
             !.contexts =
                 IF strategy(tk.urls[tk.i].url, tk.retries) = "no-http2"
                 THEN 1 ELSE 0]
    ELSE tk.open

\* a call outside every try clause raises: the exception leaves
\* scrape_domain_queue, "async with semaphore" gives the slot back, and the
\* bounded_scrape task ends with the exception
Raise(t) ==
    /\ main_pc = "gather"
    /\ \E point \in FaultPoints(tasks[t],
                       \A k \in 1..(t - 1) : tasks[k].pc # "waiting") :
         tasks' = [tasks EXCEPT ![t] =
                      [@ EXCEPT !.pc = "raised", !.fault = point,
                                !.open = OpenAfterFault(tasks[t], point)]]
    /\ semaphore' = IF tasks[t].pc = "waiting"
                    THEN semaphore ELSE semaphore + 1
    /\ UNCHANGED <<all_urls, max_retries, max_domains, run, main_pc, registry,
                   registry_file, archive, results, progress, keys_at_start,
                   dirs_at_start, ok_count, dl_failed, saved, docs, dry_run,
                   limit>>

\* asyncio.gather hands the first exception to run_scraper_async, which
\* leaves with it; asyncio.run cancels the tasks that have not ended
Propagate ==
    /\ main_pc = "gather"
    /\ \E t \in 1..Len(tasks) : tasks[t].pc = "raised"
    /\ main_pc' = "raised"
    /\ tasks' = [t \in 1..Len(tasks) |->
                    IF tasks[t].pc \in {"done", "raised"} THEN tasks[t]
                    ELSE [tasks[t] EXCEPT !.pc = "cancelled"]]
    /\ UNCHANGED <<all_urls, max_retries, max_domains, run, registry,
                   registry_file, archive, semaphore, results, progress,
                   keys_at_start, dirs_at_start, ok_count, dl_failed, saved, docs, dry_run,
                   limit>>

InitFaults ==
    /\ all_urls \in ListsUpTo(SemUniverse, MaxCandsFaults)
    /\ max_retries = MaxRetries
    /\ max_domains \in {1, MAX_CONCURRENT_DOMAINS}
    /\ InitState

NextFaults ==
    \/ Next
    \/ \E t \in 1..Len(tasks) : Raise(t)
    \/ Propagate

SpecFaults == InitFaults /\ [][NextFaults]_vars

(***************************************************************************)
(* The Archive Store on its own: save_archive called on an archive that    *)
(* starts empty.                                                           *)
(***************************************************************************)
ArchiveUniverse ==
    {UrlInfo(u, t, SourceBBC) : u \in Urls, t \in Titles}

\* archive_dir, created_new = save_archive(url_info, html, source_dir)
CallSaveArchive(url_info) ==
    /\ main_pc = "idle"
    /\ LET sv == save_archive(archive, url_info, MinContentLength,
                              SourceDirOf[url_info.source], run)
       IN  /\ archive' = sv.archive
           /\ saved' = [url_info |-> url_info, path |-> sv.path,
                        created |-> sv.created, before |-> archive,
                        calls |-> saved.calls \cup
                                    (IF saved = NoSave THEN {}
                                     ELSE {saved.url_info})]
    /\ UNCHANGED <<all_urls, max_retries, max_domains, run, main_pc, registry,
                   registry_file, tasks, semaphore, results, progress,
                   keys_at_start, dirs_at_start, ok_count, dl_failed, docs,
                   dry_run,
                   limit>>

InitArchive ==
    /\ all_urls = <<>>
    /\ max_retries = MaxRetries
    /\ max_domains = MAX_CONCURRENT_DOMAINS
    /\ InitState

NextArchive == \E url_info \in ArchiveUniverse : CallSaveArchive(url_info)

SpecArchive == InitArchive /\ [][NextArchive]_vars

(***************************************************************************)
(* update_markdown_from_registry and the --update-markdown-only run.       *)
(***************************************************************************)
NoStats == [updated_files |-> 0, updated_links |-> 0, skipped |-> 0]

\* archive_index_by_source.get(source, {}).get(url), then
\* find_archive_dir_for_url: the directories of the source whose metadata
\* name the url
IndexedDirs(arch, source, url) ==
    {d \in DOMAIN arch : Lower(d[1]) = source /\ arch[d].metadata.url = url}

\* the loop of update_markdown_from_registry over the entries of the
\* registry whose source_file is the README holding text
RECURSIVE AnnotateEntries(_, _, _, _)
AnnotateEntries(urls, scraped, arch, acc) ==
    IF urls = {} THEN acc
    ELSE LET url == CHOOSE u \in urls : TRUE
             info == scraped[url]
             indexed == IndexedDirs(arch, info.source, url)
             found == info.archive_path \in DOMAIN arch \/ indexed # {}
             archive_dir ==
                 IF info.archive_path \in DOMAIN arch THEN info.archive_path
                 ELSE CHOOSE d \in indexed : TRUE
             edit == add_archive_buttons_to_markdown(
                         acc.text, Chars[url], archive_dir)
             next ==
                 IF ~found
                 THEN [acc EXCEPT !.stats.skipped = @ + 1]
                 ELSE IF edit.changed
                 THEN [text |-> edit.text,
                       stats |-> [acc.stats EXCEPT !.updated_links = @ + 1,
                                                   !.updated_files = 1]]
                 ELSE [acc EXCEPT !.stats.skipped = @ + 1]
         IN  AnnotateEntries(urls \ {url}, scraped, arch, next)

\* update_markdown_from_registry(registry): the README afterwards and stats
update_markdown_from_registry(reg, arch, text) ==
    AnnotateEntries(DOMAIN reg.scraped_urls, reg.scraped_urls, arch,
                    [text |-> text, stats |-> NoStats])

\* the lines the READMEs of SpecAnnotate are made of
LinePlain == <<"-", " ", "[", "F", "o", "o", "]", "(", "h", "t", "t", "p", ":", "/", "/", "a", ".", "h", "k", "/", "y", ")", "\n">>
LineFormFeed == <<"-", " ", "[", "F", "o", "o", "]", "(", "h", "t", "t", "p", ":", "/", "/", "a", ".", "h", "k", "/", "y", ")", "\f">>
LineStar == <<"*", " ", "[", "F", "o", "o", "]", "(", "h", "t", "t", "p", "s", ":", "/", "/", "w", "w", "w", ".", "a", ".", "h", "k", "/", "x", ")", " ", "x", "\n">>
LineOldButtons ==
    <<"-", " ", "[", "F", "o", "o", "]", "(", "h", "t", "t", "p", ":", "/", "/", "a", ".", "h", "k", "/", "y", ")", " ", "[", "O", "r", "i", "g", "i", "n", "a", "l", "]", "(", "h", "t", "t", "p", ":", "/", "/", "a", ".", "h", "k", "/", "y", ")", "{", ".", "m", "d", "-", "b", "u", "t", "t", "o", "n", " ", ".", "m", "d", "-", "b", "u", "t", "t", "o", "n", "-", "-", "p", "r", "i", "m", "a", "r", "y", "}", " ", "[", "A", "r", "c", "h", "i", "v", "e", "]", "(", "a", "r", "c", "h", "i", "v", "e", "/", "f", "o", "o", "-", "1", "/", ")", "{", ".", "m", "d", "-", "b", "u", "t", "t", "o", "n", "}", "\n">>
LineProse == <<"F", "o", "o", " ", "h", "t", "t", "p", ":", "/", "/", "a", ".", "h", "k", "/", "y", "\n">>
LineNoNewline == <<"-", " ", "[", "F", "o", "o", "]", "(", "h", "t", "t", "p", ":", "/", "/", "a", ".", "h", "k", "/", "y", ")">>

LineUniverse ==
    {LinePlain, LineFormFeed, LineStar, LineOldButtons, LineProse,
     LineNoNewline}

DocUniverse == {Join(ls) : ls \in ListsUpTo(LineUniverse, MaxLines)}

\* the candidates whose records the registries of SpecAnnotate hold
AnnotateUniverse ==
    { UrlInfo(UrlA1, TitleFoo, SourceBBC),
      UrlInfo(UrlA2, TitleFoo, SourceBBC) }

\* the archive and registry after the candidates of infos were scraped
\* successfully, one after the other (scrape_domain_queue: save_archive,
\* registry entry, save_registry)
RECURSIVE Recorded(_, _)
Recorded(state, infos) ==
    IF infos = <<>> THEN state
    ELSE LET url_info == Head(infos)
             sv == save_archive(state.archive, url_info, MinContentLength,
                                SourceDirOf[url_info.source], 1)
         IN  Recorded(
                 [archive |-> sv.archive,
                  registry |->
                      save_registry(
                          SetEntry(state.registry, url_info.url,
                                   RegistryEntry(url_info, sv.path, 1)), 1)],
                 Tail(infos))

\* main with --update-markdown-only: load_registry, then
\* update_markdown_from_registry
Annotate ==
    /\ main_pc \in StoppedPcs
    /\ docs.passes < MaxPasses
    /\ LET loaded == load_registry(registry_file)
           out == update_markdown_from_registry(
                      loaded.value, archive, docs.text)
       IN  IF loaded.raised
           THEN /\ main_pc' = "raised"
                /\ UNCHANGED <<registry, docs>>
           ELSE /\ main_pc' = "returned"
                /\ registry' = loaded.value
                /\ docs' = [text |-> out.text, before |-> docs.text,
                            passes |-> docs.passes + 1, stats |-> out.stats]
    /\ UNCHANGED <<all_urls, max_retries, max_domains, run, registry_file,
                   archive, tasks, semaphore, results, progress,
                   keys_at_start, dirs_at_start, ok_count, dl_failed, saved,
                   dry_run,
                   limit>>

InitAnnotate ==
    /\ all_urls = <<>>
    /\ max_retries = MaxRetries
    /\ max_domains = MAX_CONCURRENT_DOMAINS
    /\ run = 0
    /\ main_pc = "idle"
    /\ registry = EmptyRegistry
    /\ \E infos \in ListsUpTo(AnnotateUniverse, 2) \cup {<<>>},
          kept \in BOOLEAN, complete \in BOOLEAN :
          LET state == Recorded([archive |-> <<>>, registry |-> EmptyRegistry],
                                infos)
          IN  /\ registry_file = RegistryFile(TRUE, state.registry, complete)
              /\ archive = IF kept THEN state.archive ELSE <<>>
    /\ tasks = <<>>
    /\ semaphore = max_domains
    /\ results = NoResults
    /\ progress = [current |-> 0, total |-> 0]
    /\ keys_at_start = {}
    /\ dirs_at_start = {}
    /\ ok_count = [u \in Urls |-> 0]
    /\ dl_failed = {}
    /\ saved = NoSave
    /\ \E text \in DocUniverse : docs = [NoDocs EXCEPT !.text = text]
    /\ dry_run = FALSE
    /\ limit = 0

NextAnnotate == Annotate

SpecAnnotate == InitAnnotate /\ [][NextAnnotate]_vars

(***************************************************************************)
(* Dedup idempotence and exactly-once fetch.                               *)
(***************************************************************************)
RegistryKeys == DOMAIN registry.scraped_urls

\* the URLs of the fetches in flight
InFlightUrls ==
    {tasks[t].urls[tasks[t].i].url :
        t \in {k \in 1..Len(tasks) : tasks[k].pc \in InFlightPcs}}

\* the URLs of all_urls
CandidateUrls == {all_urls[k].url : k \in 1..Len(all_urls)}

\* C1 as stated: the second run on the same candidate list creates no archive
\* directory and adds no Registry entry.
C1_SecondRunAddsNothing ==
    run = 2 =>
        /\ DOMAIN archive = dirs_at_start
        /\ RegistryKeys = keys_at_start

\* C1 amended: a run never fetches a URL that is a key of the Registry at
\* its start and creates no archive directory for such a URL, so a run that
\* starts with every candidate URL in the Registry creates no directory and
\* no entry; a second run may fetch, archive and record the URLs the first
\* left out of the Registry.
C1_DedupIdempotence ==
    /\ InFlightUrls \cap keys_at_start = {}
    /\ \A d \in DOMAIN archive \ dirs_at_start :
          archive[d].metadata.url \notin keys_at_start
    /\ (run >= 1 /\ CandidateUrls \subseteq keys_at_start) =>
          /\ tasks = <<>>
          /\ DOMAIN archive = dirs_at_start
          /\ RegistryKeys = keys_at_start

\* a second run that starts with a key in the Registry and creates a directory
C1_Witness ==
    /\ run = 2
    /\ main_pc = "returned"
    /\ keys_at_start # {}
    /\ DOMAIN archive # dirs_at_start

\* C2: each distinct URL is successfully fetched and archived at most once,
\* within one run and across runs.
C2_FetchedAtMostOnce == \A u \in Urls : ok_count[u] <= 1

(***************************************************************************)
(* Domain serialization and bounded parallelism.                           *)
(***************************************************************************)
\* get_domain(url), computed once per URL
DomainOf == [u \in Urls |-> get_domain(u)]

InFlightTasks == {t \in 1..Len(tasks) : tasks[t].pc \in InFlightPcs}
ExecutingTasks == {t \in 1..Len(tasks) : tasks[t].pc \in ExecutingPcs}
WaitingTasks == {t \in 1..Len(tasks) : tasks[t].pc = "waiting"}

\* the URL task t is fetching
CurrentUrl(t) == tasks[t].urls[tasks[t].i].url

\* C3: at most one fetch (a scrape_url_async invocation chain with its
\* retries) is in flight for any domain, whatever the semaphore's value.
C3_DomainSerialization ==
    \A t1, t2 \in InFlightTasks :
        t1 # t2 => DomainOf[CurrentUrl(t1)] # DomainOf[CurrentUrl(t2)]

\* two domains in flight at once, one of them with a queue of two URLs of
\* different hosts ("www.a.hk", "a.hk")
C3_Witness ==
    \E t1, t2 \in InFlightTasks :
        /\ t1 # t2
        /\ \E i, j \in 1..Len(tasks[t1].urls) :
              tasks[t1].urls[i].url # tasks[t1].urls[j].url

\* C4: at most max_domains (the semaphore's value, MAX_CONCURRENT_DOMAINS in
\* the source) tasks execute scrape_domain_queue at once, the free slots are
\* the rest, every task that is not executing and not done waits for a slot
\* without having fetched anything, and a waiting task starts in the end.
C4_BoundedParallelism ==
    /\ [](/\ Cardinality(ExecutingTasks) <= max_domains
          /\ semaphore = max_domains - Cardinality(ExecutingTasks)
          /\ \A t \in WaitingTasks :
                tasks[t].i = 0 /\ tasks[t].attempts = 0)
    /\ \A t \in 1..MaxCands :
          (t \in WaitingTasks) ~> (t \in ExecutingTasks)

\* a task waits while every slot is taken
C4_Witness ==
    /\ WaitingTasks # {}
    /\ semaphore = 0
    /\ Cardinality(ExecutingTasks) = max_domains

(***************************************************************************)
(* Retry exhaustion.                                                       *)
(***************************************************************************)
\* the tasks whose scrape_url_async has just reported a failure after
\* nothing but retryable failures
ExhaustedTasks ==
    {t \in 1..Len(tasks) :
        tasks[t].pc = "returning" /\ ~tasks[t].success /\ tasks[t].soft}

ChainLength(url) == Len(StrategiesOf[url])

FailedCount(url) ==
    Cardinality({k \in 1..Len(results.failed_urls) :
                    results.failed_urls[k] = url})

\* a step in which task t makes a fetch attempt
AttemptStep(t) ==
    /\ t <= Len(tasks)
    /\ tasks[t].pc = "fetching"
    /\ tasks'[t].attempts = tasks[t].attempts + 1

\* C6: once an attempt on a URL has failed with a download error, no further
\* attempt is made for that URL in this run, and at the end of the run the
\* URL is counted once in the failures, listed once in failed_urls and is not
\* a key of the Registry
C6_DownloadTerminal ==
    /\ [][\A t \in 1..MaxCands :
            AttemptStep(t) => CurrentUrl(t) \notin dl_failed]_vars
    /\ [](main_pc = "returned" =>
            \A u \in dl_failed :
                /\ FailedCount(u) = 1
                /\ results.failed = Len(results.failed_urls)
                /\ u \notin RegistryKeys)

\* the keys of the Registry as persisted
PersistedKeys ==
    IF registry_file.exists /\ registry_file.complete
    THEN DOMAIN registry_file.data.scraped_urls ELSE {}

\* C7: at the end of a run, every URL listed in failed_urls is absent from the
\* keys of the Registry, in memory and as persisted
C7_FailedStayOut ==
    main_pc = "returned" =>
        \A k \in 1..Len(results.failed_urls) :
            /\ results.failed_urls[k] \notin RegistryKeys
            /\ results.failed_urls[k] \notin PersistedKeys

(***************************************************************************)
(* The Registry and the Archive Store.                                     *)
(***************************************************************************)
\* the archive directories whose metadata.json names url
DirsOf(url) == {d \in DOMAIN archive : archive[d].metadata.url = url}

\* C8: every key of the Registry has exactly one archive directory whose
\* metadata url is that key, also when the URL is listed under two sources
\* or two titles
C8_RegistryArchiveConsistent ==
    \A u \in RegistryKeys : Cardinality(DirsOf(u)) = 1

\* C9: no two archive directories of one source carry metadata with the same
\* url
C9_ArchiveUnique ==
    \A d1, d2 \in DOMAIN archive :
        (d1[1] = d2[1] /\ archive[d1].metadata.url = archive[d2].metadata.url)
            => d1 = d2

(***************************************************************************)
(* Collision-safe naming.                                                  *)
(***************************************************************************)
\* the last call of save_archive: its slug, its directory of the source, and
\* the URLs the earlier calls of that slug and source brought
SavedSlug == SlugOf[saved.url_info.title]
SavedSourceDir == SourceDirOf[saved.url_info.source]
EarlierUrls ==
    {c.url : c \in {x \in saved.calls :
                        /\ SlugOf[x.title] = SavedSlug
                        /\ SourceDirOf[x.source] = SavedSourceDir}}

\* the last call brought a URL its slug had not seen
NewUrlSaved == saved # NoSave /\ saved.url_info.url \notin EarlierUrls

\* slug for k = 0, slug-k otherwise
KthName(slug, k) == IF k = 0 THEN slug ELSE Suffixed(slug, k)

\* the call stored the URL in its own directory, the k-th of its slug
StoredAtKth ==
    LET dir == <<SavedSourceDir, KthName(SavedSlug, Cardinality(EarlierUrls))>>
    IN  /\ saved.created
        /\ saved.path = dir
        /\ dir \notin DOMAIN saved.before
        /\ dir \in DOMAIN archive
        /\ archive[dir].metadata.url = saved.url_info.url

\* C10 as stated: of the candidates of one slug, the k-th distinct URL is
\* stored in its own directory, slug for k = 0 and slug-k otherwise, whose
\* metadata url is its URL, and the call returns created = true
C10_KthUrlAtSlugK == NewUrlSaved => StoredAtKth

\* before the last call a directory named slug or slug-j held the page of a
\* title of another slug (the slug of "Foo 1" is foo-1, the name of the
\* second directory of the slug foo)
ForeignInChain ==
    \E d \in DOMAIN saved.before :
        /\ d[1] = SavedSourceDir
        /\ \E j \in 0..Cardinality(DOMAIN saved.before) :
              d[2] = KthName(SavedSlug, j)
        /\ SlugOf[saved.before[d].metadata.title] # SavedSlug

\* C10, amended: the k-th distinct URL of a slug gets its own directory
\* slug / slug-k with created = true as long as no directory named slug or
\* slug-j holds a page of another slug; in every case a created directory is new
\* and carries the URL of its candidate, and a directory returned with
\* created = false carries that URL and nothing is written
C10_CollisionSafeNaming ==
    /\ (NewUrlSaved /\ ~ForeignInChain) => StoredAtKth
    /\ saved # NoSave =>
          /\ saved.path \in DOMAIN archive
          /\ archive[saved.path].metadata.url = saved.url_info.url
          /\ \A d \in DOMAIN saved.before : archive[d] = saved.before[d]
          /\ IF saved.created
             THEN saved.path \notin DOMAIN saved.before
             ELSE archive = saved.before

\* the third distinct URL of the slug foo has been stored in foo-2
C10_Witness ==
    /\ NewUrlSaved
    /\ ~ForeignInChain
    /\ Cardinality(EarlierUrls) = 2
    /\ saved.created
    /\ saved.path = <<SavedSourceDir, Suffixed(SavedSlug, 2)>>

(***************************************************************************)
(* Crashes and the registry file.                                          *)
(***************************************************************************)
\* the URLs whose record has completed: save_registry has returned
RecordedUrls == {u \in Urls : ok_count[u] > 0}

\* what the next run gets from load_registry
NextLoad == load_registry(registry_file)

\* C11: wherever the process is killed, the Registry the next run loads
\* holds every entry whose record had completed before
C11_CrashSafety ==
    \A u \in RecordedUrls :
        ~NextLoad.raised /\ u \in DOMAIN NextLoad.value.scraped_urls

\* C12: load_registry never fails, and gives the empty registry for a file
\* that exists but is malformed, so that the run proceeds
C12_CorruptionNotFatal ==
    /\ main_pc # "raised"
    /\ (registry_file.exists /\ ~registry_file.complete) =>
          (~NextLoad.raised /\ NextLoad.value = EmptyRegistry)

(***************************************************************************)
(* Exceptions.                                                             *)
(***************************************************************************)
\* the tasks an exception has ended
RaisedTasks == {t \in 1..Len(tasks) : tasks[t].pc = "raised"}

\* C13: whatever fails while one URL is processed (the failures of the
\* context a queue opens before its first URL are left aside), every other
\* pending URL of the run is processed and counted as a success or as a
\* failure
C13_FailureIsolation ==
    (/\ main_pc \in {"returned", "raised"}
     /\ \A t \in RaisedTasks : tasks[t].fault # "new_context") =>
        results.success + results.failed + Cardinality(RaisedTasks)
            >= progress.total

\* C14: no exception leaves scrape_url_async, whether a page is made,
\* loaded, read or closed
C14_FetcherNeverRaises ==
    \A t \in 1..Len(tasks) : tasks[t].fault \notin {"new_page", "page_close"}

(***************************************************************************)
(* Minimum content threshold.                                              *)
(***************************************************************************)
\* C15: under every strategy, content shorter than the threshold is never
\* reported as a successful fetch, and is never archived
C15_MinimumContent ==
    /\ \A t \in 1..Len(tasks) :
          (tasks[t].pc = "returning" /\ tasks[t].success)
              => tasks[t].html >= MinContentLength
    /\ \A d \in DOMAIN archive : archive[d].html >= MinContentLength

(***************************************************************************)
(* Politeness delays.                                                      *)
(***************************************************************************)
\* C16: a worker sleeps once between two consecutive requests of its queue,
\* not before the first and not after the last: i - 1 delays lie before its
\* i-th request, and n - 1 behind a queue of n URLs
C16_PolitenessDelays ==
    \A t \in 1..Len(tasks) :
        /\ tasks[t].pc \in InFlightPcs => tasks[t].delays = tasks[t].i - 1
        /\ tasks[t].pc \in {"closing", "done"}
              => tasks[t].delays = Len(tasks[t].urls) - 1

(***************************************************************************)
(* Dry run.                                                                *)
(***************************************************************************)
\* a step that is a call of run_scraper_async with dry_run = True
DryRunStep == run' = run + 1 /\ dry_run'

\* C17: a dry run fetches nothing, creates no archive directory, leaves the
\* registry file and the source documents as they are, holds the Registry
\* as the file has it, and returns zero counts and an empty failed_urls
C17_DryRunNoEffect ==
    /\ [][DryRunStep =>
            /\ UNCHANGED <<archive, registry_file, docs, ok_count>>
            /\ ~NextLoad.raised => registry' = NextLoad.value
            /\ results' = NoResults]_vars
    /\ [](dry_run =>
            /\ tasks = <<>>
            /\ results = NoResults
            /\ main_pc \in {"dry_run", "raised"})

\* a dry run that had URLs to scrape, after a run that archived a page
C17_Witness ==
    /\ dry_run
    /\ main_pc = "dry_run"
    /\ archive # <<>>
    /\ filter_new_urls(all_urls, registry) # <<>>

(***************************************************************************)
(* Release of what a fetch opens.                                          *)
(***************************************************************************)
\* C19: when scrape_url_async has returned, with a page or with a failure,
\* no page, no context of the no-http2 strategy and no browser driver that
\* the fetch opened is still open
C19_GuaranteedRelease ==
    \A t \in 1..Len(tasks) :
        tasks[t].pc = "returning" => tasks[t].open = NoneOpen

(***************************************************************************)
(* Registry entries.                                                       *)
(***************************************************************************)
\* C20: an entry of the Registry, once written, keeps every field and is
\* never removed, in memory and in the file, in this run and in later runs
C20_WriteOnce ==
    [][/\ \A u \in RegistryKeys :
             /\ u \in DOMAIN registry'.scraped_urls
             /\ registry'.scraped_urls[u] = registry.scraped_urls[u]
       /\ \A u \in PersistedKeys :
             /\ registry_file'.exists /\ registry_file'.complete
             /\ u \in DOMAIN registry_file'.data.scraped_urls
             /\ registry_file'.data.scraped_urls[u]
                   = registry_file.data.scraped_urls[u]]_vars

(***************************************************************************)
(* Annotation idempotence.                                                 *)
(***************************************************************************)
\* C18 as stated: after one invocation of update_markdown_from_registry,
\* another invocation on the same Registry leaves the source document as it
\* was and reports updated_links = 0 and updated_files = 0.
C18_AnnotationIdempotent ==
    docs.passes >= 2 =>
        /\ docs.text = docs.before
        /\ docs.stats.updated_links = 0
        /\ docs.stats.updated_files = 0

(***************************************************************************)
(* Strategy selection.                                                     *)
(***************************************************************************)
\* the tasks whose current fetch has made an attempt on the default chain
AttemptedDefault ==
    {t \in 1..Len(tasks) :
        /\ tasks[t].pc \in {"backoff", "returning"}
        /\ ~IsInmedia(tasks[t].urls[tasks[t].i].url)}

\* the place of a strategy in the default table, 0 before the first attempt
PlaceOf(desc) ==
    IF desc = "none" THEN 0
    ELSE CHOOSE k \in 1..Len(DefaultStrategies) : DefaultStrategies[k] = desc

\* the strategy a task's last attempt used is number min(r, 3) of the table
StrategyOfRetry ==
    \A t \in AttemptedDefault :
        tasks[t].desc = DefaultStrategies[Min(tasks[t].retries, 3) + 1]

\* strategy_idx is min(r, 3) and in range beyond the retries a run reaches
IndexInRange ==
    \A r \in 0..(MaxRetriesDeep + 1) :
        /\ strategy_idx(UrlA1, r) \in 0..(Len(DefaultStrategies) - 1)
        /\ strategy_idx(UrlA1, r) = Min(r, 3)

\* an attempt of task t uses a strategy no earlier in the table than the
\* one before
NonDecreasing(t) ==
    (AttemptStep(t) /\ ~IsInmedia(tasks[t].urls[tasks[t].i].url))
        => PlaceOf(tasks'[t].desc) >= PlaceOf(tasks[t].desc)

\* C21: on the default chain the attempt with retry count r uses strategy
\* number min(r, 3) of [domcontentloaded, networkidle, no-http2,
\* requests-fallback]; the index is in range for every r >= 0, and successive
\* attempts for one URL use strategies in non-decreasing table order.
C21_StrategySelection ==
    /\ [](StrategyOfRetry /\ IndexInRange)
    /\ [][\A t \in 1..Len(tasks) : NonDecreasing(t)]_vars

\* an attempt with retry count 3 has used the requests fallback
C21_Witness ==
    \E t \in AttemptedDefault :
        /\ tasks[t].retries = 3
        /\ tasks[t].desc = "requests-fallback"
        /\ tasks[t].pc = "returning"

(***************************************************************************)
(* Backoff schedule.                                                       *)
(***************************************************************************)
\* the backoffs a task has begun for its current URL stand between its
\* attempts: one after every attempt that is retried, none after the last
BackoffsBetweenAttempts(tk) ==
    /\ tk.pc \in {"backoff", "fetching"} => Len(tk.backoffs) = tk.attempts
    /\ tk.pc \in {"fetching", "returning"} => Len(tk.backoffs) = tk.retries
    /\ tk.pc = "returning" => Len(tk.backoffs) = tk.attempts - 1

\* C22: the backoff between attempt r and attempt r + 1 of one URL lasts at
\* least base * 2^r, the backoffs of one URL are strictly increasing, and a
\* backoff stands before every retry and never after the final attempt.
C22_BackoffSchedule ==
    \A t \in 1..Len(tasks) :
        LET tk == tasks[t]
        IN  /\ BackoffsBetweenAttempts(tk)
            /\ \A k \in 1..Len(tk.backoffs) :
                  /\ tk.backoffs[k] >= BackoffBase * Pow2(k - 1)
                  /\ k > 1 => tk.backoffs[k] > tk.backoffs[k - 1]

\* a fetch has returned after three retries, each after its backoff
C22_Witness ==
    \E t \in 1..Len(tasks) :
        /\ tasks[t].pc = "returning"
        /\ tasks[t].attempts = 4
        /\ Len(tasks[t].backoffs) = 3

(***************************************************************************)
(* Release before escalation.                                              *)
(***************************************************************************)
\* C23: when an attempt is retried, the page and the context it opened are
\* closed before the next attempt opens its own, so a domain worker never
\* holds a page of an earlier attempt while it makes the next one.
C23_ReleaseBeforeEscalation ==
    \A t \in 1..Len(tasks) :
        tasks[t].pc = "fetching" =>
            /\ tasks[t].open.pages = 0
            /\ tasks[t].open.contexts = 0

(***************************************************************************)
(* save_archive leaves existing records alone.                             *)
(***************************************************************************)
\* the k-th directory of the last call's slug, as it was before the call
ChainDir(k) == <<SavedSourceDir, KthName(SavedSlug, k)>>

\* before the last call the directories slug, slug-1, ..., slug-(k-1)
\* existed for other URLs and the k-th held the candidate's URL: the probe
\* of save_archive finds it
FoundAt(k) ==
    /\ ChainDir(k) \in DOMAIN saved.before
    /\ saved.before[ChainDir(k)].metadata.url = saved.url_info.url
    /\ \A j \in 0..(k - 1) :
          /\ ChainDir(j) \in DOMAIN saved.before
          /\ saved.before[ChainDir(j)].metadata.url # saved.url_info.url

\* C24: every archive directory that exists before a save_archive call has
\* the same content file and metadata after the call; when a directory whose
\* metadata url is the candidate's URL is found at slug or at a probed
\* suffix, the call returns that path with created = false and writes
\* nothing.
C24_ExistingUntouched ==
    saved # NoSave =>
        /\ \A d \in DOMAIN saved.before :
              d \in DOMAIN archive /\ archive[d] = saved.before[d]
        /\ \A k \in 0..Cardinality(DOMAIN saved.before) :
              FoundAt(k) =>
                  /\ saved.path = ChainDir(k)
                  /\ ~saved.created
                  /\ archive = saved.before

\* a call has found its URL at the probed suffix 1 and returned it
C24_Witness ==
    /\ saved # NoSave
    /\ FoundAt(1)
    /\ saved.path = ChainDir(1)
    /\ ~saved.created

(***************************************************************************)
(* Atomic record under interleaving.                                       *)
(***************************************************************************)
\* the persisted Registry is the Registry in memory
PersistedIsInMemory ==
    IF registry_file.exists
    THEN registry_file.complete /\ registry_file.data = registry
    ELSE registry = EmptyRegistry

\* task t records the page of its current URL in this step
RecordStep(t) ==
    /\ t <= Len(tasks)
    /\ tasks[t].pc = "returning"
    /\ tasks[t].success /\ tasks[t].html # 0
    /\ tasks'[t].pc # "returning"

\* the step keeps every persisted entry, and changes none but the entry of
\* the URL whose worker records it in this step
NoEntryLost ==
    \A u \in PersistedKeys :
        /\ u \in DOMAIN registry_file'.data.scraped_urls
        /\ (registry_file'.data.scraped_urls[u]
                # registry_file.data.scraped_urls[u])
              => \E t \in 1..Len(tasks) : RecordStep(t) /\ CurrentUrl(t) = u

\* a record is one step: the directory, the entry in memory and the entry
\* in the file appear together
RecordIsOneStep ==
    \A t \in 1..Len(tasks) :
        RecordStep(t) =>
            /\ CurrentUrl(t) \in DOMAIN registry'.scraped_urls
            /\ registry'.scraped_urls[CurrentUrl(t)].archive_path
                  \in DOMAIN archive'
            /\ registry_file'.data = registry'

\* C25: for every interleaving of domain workers, the archive write, the
\* in-memory Registry update and save_registry for one URL happen without a
\* suspension point between them; the persisted Registry equals the
\* in-memory Registry and contains every entry recorded so far by any worker,
\* and no entry written by one worker is lost to another worker's rewrite.
C25_AtomicRecord ==
    /\ [](PersistedIsInMemory /\ RecordedUrls \subseteq PersistedKeys)
    /\ [][NoEntryLost /\ RecordIsOneStep]_vars

\* the workers of two domains have both recorded a page while a third
\* fetch is still in flight
C25_Witness ==
    /\ main_pc = "gather"
    /\ Cardinality({DomainOf[u] : u \in PersistedKeys}) = 2
    /\ InFlightTasks # {}

(***************************************************************************)
(* Result accounting.                                                      *)
(***************************************************************************)
\* the candidates whose URL was not a key of the Registry when the run
\* started, cut to the limit
PendingCount ==
    LET new == Cardinality({k \in 1..Len(all_urls) :
                               all_urls[k].url \notin keys_at_start})
    IN  IF limit = 0 THEN new
        ELSE IF limit > 0 THEN Min(limit, new)
        ELSE IF new + limit > 0 THEN new + limit ELSE 0

\* the iterations of "for url_info in urls" task t has been through
Iterated(t) ==
    IF tasks[t].pc = "waiting" THEN 0
    ELSE IF tasks[t].pc \in InFlightPcs THEN tasks[t].i - 1
    ELSE tasks[t].i

RECURSIVE IteratedUpTo(_)
IteratedUpTo(n) == IF n = 0 THEN 0 ELSE Iterated(n) + IteratedUpTo(n - 1)

\* C26: when run_scraper_async returns from a non-dry run, success + failed
\* is the number of pending candidates (after the dedup filter and the
\* limit), failed is the length of failed_urls, and the Registry entries
\* added during the run are at most success; under any interleaving of the
\* domain workers no increment of the shared counters is lost.
C26_ResultAccounting ==
    /\ (main_pc = "returned" /\ ~dry_run) =>
          /\ results.success + results.failed = PendingCount
          /\ results.failed = Len(results.failed_urls)
          /\ Cardinality(RegistryKeys \ keys_at_start) <= results.success
    /\ main_pc = "gather" =>
          /\ results.success + results.failed = IteratedUpTo(Len(tasks))
          /\ results.failed = Len(results.failed_urls)

\* a run limited to two of three candidates has returned one success and
\* one failure, from workers of two domains
C26_Witness ==
    /\ main_pc = "returned"
    /\ ~dry_run
    /\ limit = 2
    /\ Len(all_urls) = 3
    /\ Len(tasks) = 2
    /\ results.success = 1
    /\ results.failed = 1

(***************************************************************************)
(* Termination.                                                            *)
(***************************************************************************)
FetchingTasks == {t \in 1..Len(tasks) : tasks[t].pc = "fetching"}
ReturningTasks == {t \in 1..Len(tasks) : tasks[t].pc = "returning"}
DoneTasks == {t \in 1..Len(tasks) : tasks[t].pc = "done"}

====
